---- MODULE Spec2Model ----
(***************************************************************************)
(* Model of the Playtomic API client: the two client classes               *)
(* PlaytomicClient (api.py) and Client (client.py), their eager login,     *)
(* the header builder, the HTTP transport wrapper, send_request with its   *)
(* refresh-and-retry on 401, and the Tenant / Tournament endpoints.        *)
(*                                                                         *)
(* Python values are modelled as follows: str as TLA+ strings, None as the *)
(* string None, a dict as a function from its keys to its values, a parsed *)
(* response body as a record [parse, value].  Every HTTP round trip is a   *)
(* blocking point of the caller, so each handler is cut at its HTTP calls: *)
(* one action issues the call, the next consumes the server's response.    *)
(***************************************************************************)
EXTENDS Integers, Sequences, FiniteSets, TLC

VARIABLES
    cls,            \* which class the client object is an instance of
    client,         \* lifecycle of the object: new, login, ready, failed
    ctor_exc,       \* exception the constructor raised (None if none)
    login_reply,    \* the server's response to the login call, once it has come back
    access_token,   \* self.access_token
    refresh_token,  \* self.refresh_token
    threads,        \* the callers of send_request on this client
    pc,             \* per caller: idle, attempt1, refreshing, retry
    req,            \* per caller: arguments of the running/last send_request
    calls,          \* per caller: HTTP calls issued by the running/last send_request
    replies,        \* per caller: server responses received by that send_request
    entry,          \* per caller: the token pair (and history) when send_request was entered
    outcome,        \* per caller: how the last send_request ended
    wire,           \* lifetime summary of the HTTP traffic of the client
    sends           \* lifetime summary: has a send_request raised out of an HTTP exchange

vars == <<cls, client, ctor_exc, login_reply, access_token, refresh_token, threads, pc, req,
          calls, replies, entry, outcome, wire, sends>>

-----------------------------------------------------------------------------
(* Values *)

None == "<None>"

Classes == {"PlaytomicClient", "Client"}

BASE_URL == "https://api.playtomic.io"

LOGIN_URL == BASE_URL \o "/v3/auth/login"

REFRESH_URL == BASE_URL \o "/v3/auth/refresh"

Email == "user@example.org"

Password == "secret"

\* json=None of a request without payload
JsonNone == [py |-> "None"]

EmptyDict == [k \in {} |-> None]

\* status code on which send_request refreshes
Unauthorized == 401

\* token strings a server may hand out
AccessTokens == {"a1", "a2"}

RefreshTokens == {"r1", "r2"}

\* statuses whose body the client gets to read, and statuses it never reads
OkStatuses == {200, 304}

ErrorStatuses == {401, 500}

\* dict bodies of the token endpoints: either field may be missing
TokenDicts ==
    { [k \in {} |-> None] } \cup
    { [access_token |-> a] : a \in AccessTokens } \cup
    { [refresh_token |-> r] : r \in RefreshTokens } \cup
    { [access_token |-> a, refresh_token |-> r] : a \in AccessTokens, r \in RefreshTokens }

ResourceDicts == { [id |-> "b1"], [id |-> "b2"] }

\* a body that is no JSON, a JSON array, a JSON object
InvalidBody == [parse |-> "invalid", value |-> EmptyDict]

ListBody == [parse |-> "list", value |-> EmptyDict]

DictBody(d) == [parse |-> "dict", value |-> d]

TokenBodies == {InvalidBody, ListBody} \cup { DictBody(d) : d \in TokenDicts }

ResourceBodies == {InvalidBody} \cup { DictBody(d) : d \in ResourceDicts }

\* the transport failing below HTTP (DNS, timeout, connection reset)
NetFail == [net |-> "fail", status |-> 0, body |-> InvalidBody]

HttpResponse(s, b) == [net |-> "ok", status |-> s, body |-> b]

ErrorResponses == { HttpResponse(s, InvalidBody) : s \in ErrorStatuses }

TokenResponses ==
    {NetFail} \cup ErrorResponses \cup
    { HttpResponse(s, b) : s \in OkStatuses, b \in TokenBodies }

ResourceResponses ==
    {NetFail} \cup ErrorResponses \cup
    { HttpResponse(s, b) : s \in OkStatuses, b \in ResourceBodies }

NoOutcome == [kind |-> "none", exc |-> None, value |-> InvalidBody]

\* send_request returning something other than the parsed body of its response
ReturnStale(b) == [kind |-> "return", exc |-> None, value |-> DictBody(EmptyDict)]

\* return response.json()
Return(b) == [kind |-> "return", exc |-> None, value |-> b]

Raise(e) == [kind |-> "raise", exc |-> e, value |-> InvalidBody]

-----------------------------------------------------------------------------
(* Pure helpers *)

\* dict.get(key): the value, or None when the key is missing
DictGet(d, k) == IF k \in DOMAIN d THEN d[k] ELSE None

\* Python truthiness of an Optional[str]: None and "" are false
Truthy(s) == s # None /\ s # ""

JsonHeaders == [k \in {"Content-Type"} |-> "application/json"]

BearerHeaders(at) ==
    [k \in {"Authorization", "Content-Type"} |->
        IF k = "Authorization" THEN "Bearer " \o at ELSE "application/json"]

HeadersOk(h) == [raised |-> FALSE, headers |-> h]

HeadersRaise == [raised |-> TRUE, headers |-> EmptyDict]

\* PlaytomicClient._get_headers
PlaytomicClient_get_headers(at) ==
    IF ~Truthy(at) THEN HeadersOk(JsonHeaders) ELSE HeadersOk(BearerHeaders(at))

\* Client._get_headers
Client_get_headers(at) ==
    IF ~Truthy(at) THEN HeadersRaise ELSE HeadersOk(BearerHeaders(at))

\* self._get_headers() dispatched on the class of self
GetHeaders(c, at) ==
    IF c = "Client" THEN Client_get_headers(at) ELSE PlaytomicClient_get_headers(at)

\* Response.raise_for_status(): HTTPError on 4xx and 5xx
RaiseForStatus(s) == s >= 400 /\ s < 600

\* the except clause refreshing on every HTTPError, not only on 401
Is401_AnyHttpError(r) == r.net = "ok" /\ RaiseForStatus(r.status)

\* the except clause of send_request that leads to the refresh: an HTTPError
\* whose response has status 401
Is401(r) == r.net = "ok" /\ RaiseForStatus(r.status) /\ r.status = Unauthorized

\* _send_http_request: the exception it raises for a response, None if it returns
SendHttpRequest(r) ==
    IF r.net = "fail" THEN "ConnectionError"
    ELSE IF RaiseForStatus(r.status) THEN "HTTPError"
    ELSE None

\* response.json(): the exception it raises, None if the body parses
JsonExc(b) == IF b.parse = "invalid" THEN "JSONDecodeError" ELSE None

\* data.get(...) on the parsed body of a token endpoint
TokenDataExc(b) ==
    IF JsonExc(b) # None THEN JsonExc(b)
    ELSE IF b.parse # "dict" THEN "AttributeError"
    ELSE None

HttpCall(m, u, h, j) == [method |-> m, url |-> u, headers |-> h, json |-> j]

LoginCall == HttpCall("POST", LOGIN_URL, JsonHeaders, [email |-> Email, password |-> Password])

RefreshCall(rt) == HttpCall("POST", REFRESH_URL, JsonHeaders, [refresh_token |-> rt])

Request(m, e, p) == [method |-> m, endpoint |-> e, payload |-> p]

NoRequest == Request(None, None, JsonNone)

ApiCall(r, h) == HttpCall(r.method, BASE_URL \o r.endpoint, h, r.payload)

-----------------------------------------------------------------------------
(* State *)

Threads == {1}

NoEntry == [access_token |-> None, refresh_token |-> None, after_failure |-> FALSE]

\* the traffic summary after one more HTTP call
WireAfter(w, c) ==
    [first |-> IF w.first = None THEN c.url ELSE w.first,
     logins |-> IF c.url = LOGIN_URL THEN w.logins + 1 ELSE w.logins]

\* __init__ up to the call of _authenticate: both tokens None, nothing sent
Init ==
    /\ cls \in Classes
    /\ client = "new"
    /\ ctor_exc = None
    /\ login_reply = <<>>
    /\ access_token = None
    /\ refresh_token = None
    /\ threads = Threads
    /\ pc = [t \in Threads |-> "idle"]
    /\ req = [t \in Threads |-> NoRequest]
    /\ calls = [t \in Threads |-> <<>>]
    /\ replies = [t \in Threads |-> <<>>]
    /\ entry = [t \in Threads |-> NoEntry]
    /\ outcome = [t \in Threads |-> NoOutcome]
    /\ wire = [first |-> None, logins |-> 0]
    /\ sends = [failed |-> FALSE]

-----------------------------------------------------------------------------
(* Construction: __init__ calls _authenticate, which POSTs the credentials *)

Authenticate ==
    /\ client = "new"
    /\ client' = "login"
    /\ wire' = WireAfter(wire, LoginCall)
    /\ UNCHANGED <<cls, ctor_exc, login_reply, access_token, refresh_token, threads,
                   pc, req, calls, replies, entry, outcome, sends>>

\* _authenticate swallowing its errors: the constructor returns a client anyway
AuthenticateReply_SwallowsErrors(r) ==
    /\ client = "login"
    /\ login_reply' = <<r>>
    /\ client' = "ready"
    /\ IF SendHttpRequest(r) # None \/ TokenDataExc(r.body) # None
         THEN UNCHANGED <<access_token, refresh_token>>
         ELSE /\ access_token' = DictGet(r.body.value, "access_token")
              /\ refresh_token' = DictGet(r.body.value, "refresh_token")
    /\ UNCHANGED <<cls, ctor_exc, threads, pc, req, calls, replies, entry, outcome, wire,
                   sends>>

\* the rest of _authenticate once the login call has come back
AuthenticateReply(r) ==
    /\ client = "login"
    /\ login_reply' = <<r>>
    /\ IF SendHttpRequest(r) # None
         THEN /\ client' = "failed"
              /\ ctor_exc' = SendHttpRequest(r)
              /\ UNCHANGED <<access_token, refresh_token>>
         ELSE IF TokenDataExc(r.body) # None
         THEN /\ client' = "failed"
              /\ ctor_exc' = TokenDataExc(r.body)
              /\ UNCHANGED <<access_token, refresh_token>>
         ELSE /\ client' = "ready"
              /\ access_token' = DictGet(r.body.value, "access_token")
              /\ refresh_token' = DictGet(r.body.value, "refresh_token")
              /\ UNCHANGED ctor_exc
    /\ UNCHANGED <<cls, threads, pc, req, calls, replies, entry, outcome, wire, sends>>

-----------------------------------------------------------------------------
(* send_request *)

\* send_request returns or raises: the caller is idle again
Finish(t, out) ==
    /\ pc' = [pc EXCEPT ![t] = "idle"]
    /\ outcome' = [outcome EXCEPT ![t] = out]
    /\ sends' = [failed |-> sends.failed \/ (out.kind = "raise" /\ replies'[t] # <<>>)]

\* one HTTP call goes out and the caller blocks at position p
Issue(t, c, p) ==
    /\ calls' = [calls EXCEPT ![t] = Append(@, c)]
    /\ wire' = WireAfter(wire, c)
    /\ pc' = [pc EXCEPT ![t] = p]

\* send_request(method, endpoint, payload) up to its first HTTP call
SendRequest(t, m, e, p) ==
    /\ client = "ready"
    /\ pc[t] = "idle"
    /\ req' = [req EXCEPT ![t] = Request(m, e, p)]
    /\ replies' = [replies EXCEPT ![t] = <<>>]
    /\ entry' = [entry EXCEPT ![t] = [access_token |-> access_token,
                                       refresh_token |-> refresh_token,
                                       after_failure |-> sends.failed]]
    /\ IF GetHeaders(cls, access_token).raised
         THEN /\ calls' = [calls EXCEPT ![t] = <<>>]
              /\ Finish(t, Raise("Exception"))
              /\ UNCHANGED wire
         ELSE /\ calls' = [calls EXCEPT ![t] =
                             <<ApiCall(req'[t], GetHeaders(cls, access_token).headers)>>]
              /\ wire' = WireAfter(wire, ApiCall(req'[t],
                                                 GetHeaders(cls, access_token).headers))
              /\ pc' = [pc EXCEPT ![t] = "attempt1"]
              /\ outcome' = [outcome EXCEPT ![t] = NoOutcome]
              /\ UNCHANGED sends
    /\ UNCHANGED <<cls, client, ctor_exc, login_reply, access_token, refresh_token, threads>>

\* the first attempt has come back: return, raise, or start the refresh
Attempt1Reply(t, r) ==
    /\ pc[t] = "attempt1"
    /\ replies' = [replies EXCEPT ![t] = Append(@, r)]
    /\ IF Is401(r)
         THEN /\ Issue(t, RefreshCall(refresh_token), "refreshing")
              /\ UNCHANGED <<outcome, sends>>
         ELSE IF SendHttpRequest(r) # None
         THEN /\ Finish(t, Raise(SendHttpRequest(r)))
              /\ UNCHANGED <<calls, wire>>
         ELSE IF JsonExc(r.body) # None
         THEN /\ Finish(t, Raise(JsonExc(r.body)))
              /\ UNCHANGED <<calls, wire>>
         ELSE /\ Finish(t, Return(r.body))
              /\ UNCHANGED <<calls, wire>>
    /\ UNCHANGED <<cls, client, ctor_exc, login_reply, access_token, refresh_token, threads, req, entry>>

\* _refresh_access_token dropping the stored tokens when the refresh fails
RefreshReply_ClearsTokensOnFailure(t, r) ==
    /\ pc[t] = "refreshing"
    /\ replies' = [replies EXCEPT ![t] = Append(@, r)]
    /\ IF SendHttpRequest(r) # None \/ TokenDataExc(r.body) # None
         THEN /\ Finish(t, Raise(IF SendHttpRequest(r) # None THEN SendHttpRequest(r)
                                   ELSE TokenDataExc(r.body)))
              /\ access_token' = None
              /\ refresh_token' = None
              /\ UNCHANGED <<calls, wire>>
         ELSE /\ access_token' = DictGet(r.body.value, "access_token")
              /\ refresh_token' = DictGet(r.body.value, "refresh_token")
              /\ IF GetHeaders(cls, access_token').raised
                   THEN /\ Finish(t, Raise("Exception"))
                        /\ UNCHANGED <<calls, wire>>
                   ELSE /\ Issue(t, ApiCall(req[t], GetHeaders(cls, access_token').headers),
                                 "retry")
                        /\ UNCHANGED <<outcome, sends>>
    /\ UNCHANGED <<cls, client, ctor_exc, login_reply, threads, req, entry>>

\* send_request retrying with the headers it built before the refresh
RefreshReply_StaleHeaders(t, r) ==
    /\ pc[t] = "refreshing"
    /\ replies' = [replies EXCEPT ![t] = Append(@, r)]
    /\ IF SendHttpRequest(r) # None
         THEN /\ Finish(t, Raise(SendHttpRequest(r)))
              /\ UNCHANGED <<access_token, refresh_token, calls, wire>>
         ELSE IF TokenDataExc(r.body) # None
         THEN /\ Finish(t, Raise(TokenDataExc(r.body)))
              /\ UNCHANGED <<access_token, refresh_token, calls, wire>>
         ELSE /\ access_token' = DictGet(r.body.value, "access_token")
              /\ refresh_token' = DictGet(r.body.value, "refresh_token")
              /\ Issue(t, calls[t][1], "retry")
              /\ UNCHANGED <<outcome, sends>>
    /\ UNCHANGED <<cls, client, ctor_exc, login_reply, threads, req, entry>>

\* _refresh_access_token once the refresh call has come back, then the
\* rebuilt headers and the retried call
RefreshReply(t, r) ==
    /\ pc[t] = "refreshing"
    /\ replies' = [replies EXCEPT ![t] = Append(@, r)]
    /\ IF SendHttpRequest(r) # None
         THEN /\ Finish(t, Raise(SendHttpRequest(r)))
              /\ UNCHANGED <<access_token, refresh_token, calls, wire>>
         ELSE IF TokenDataExc(r.body) # None
         THEN /\ Finish(t, Raise(TokenDataExc(r.body)))
              /\ UNCHANGED <<access_token, refresh_token, calls, wire>>
         ELSE /\ access_token' = DictGet(r.body.value, "access_token")
              /\ refresh_token' = DictGet(r.body.value, "refresh_token")
              /\ IF GetHeaders(cls, access_token').raised
                   THEN /\ Finish(t, Raise("Exception"))
                        /\ UNCHANGED <<calls, wire>>
                   ELSE /\ Issue(t, ApiCall(req[t], GetHeaders(cls, access_token').headers),
                                 "retry")
                        /\ UNCHANGED <<outcome, sends>>
    /\ UNCHANGED <<cls, client, ctor_exc, login_reply, threads, req, entry>>

\* the retried call handled like the first attempt: a 401 refreshes again
RetryReply_RefreshAgain(t, r) ==
    /\ pc[t] = "retry"
    /\ replies' = [replies EXCEPT ![t] = Append(@, r)]
    /\ IF Is401(r)
         THEN /\ Issue(t, RefreshCall(refresh_token), "refreshing")
              /\ UNCHANGED <<outcome, sends>>
         ELSE IF SendHttpRequest(r) # None
         THEN /\ Finish(t, Raise(SendHttpRequest(r)))
              /\ UNCHANGED <<calls, wire>>
         ELSE /\ Finish(t, Return(r.body))
              /\ UNCHANGED <<calls, wire>>
    /\ UNCHANGED <<cls, client, ctor_exc, login_reply, access_token, refresh_token, threads,
                   req, entry>>

\* the retried call returning the parsed body of the refresh response
RetryReply_ReturnsRefreshBody(t, r) ==
    /\ pc[t] = "retry"
    /\ replies' = [replies EXCEPT ![t] = Append(@, r)]
    /\ IF SendHttpRequest(r) # None
         THEN Finish(t, Raise(SendHttpRequest(r)))
         ELSE IF JsonExc(r.body) # None
         THEN Finish(t, Raise(JsonExc(r.body)))
         ELSE Finish(t, Return(replies[t][2].body))
    /\ UNCHANGED <<cls, client, ctor_exc, login_reply, access_token, refresh_token, threads,
                   req, calls, entry, wire>>

\* the retry written as a loop: a 401 on the retried call starts over
RetryReply_LoopsOn401(t, r) ==
    /\ pc[t] = "retry"
    /\ IF Is401(r)
         THEN /\ pc' = [pc EXCEPT ![t] = "attempt1"]
              /\ calls' = [calls EXCEPT ![t] = <<calls[t][1]>>]
              /\ replies' = [replies EXCEPT ![t] = <<>>]
              /\ UNCHANGED <<outcome, sends>>
         ELSE /\ replies' = [replies EXCEPT ![t] = Append(@, r)]
              /\ UNCHANGED calls
              /\ IF SendHttpRequest(r) # None
                   THEN Finish(t, Raise(SendHttpRequest(r)))
                   ELSE IF JsonExc(r.body) # None
                   THEN Finish(t, Raise(JsonExc(r.body)))
                   ELSE Finish(t, Return(r.body))
    /\ UNCHANGED <<cls, client, ctor_exc, login_reply, access_token, refresh_token, threads,
                   req, entry, wire>>

\* the retried call has come back: return or raise, nothing is caught
RetryReply(t, r) ==
    /\ pc[t] = "retry"
    /\ replies' = [replies EXCEPT ![t] = Append(@, r)]
    /\ IF SendHttpRequest(r) # None
         THEN Finish(t, Raise(SendHttpRequest(r)))
         ELSE IF JsonExc(r.body) # None
         THEN Finish(t, Raise(JsonExc(r.body)))
         ELSE Finish(t, Return(r.body))
    /\ UNCHANGED <<cls, client, ctor_exc, login_reply, access_token, refresh_token, threads, req,
                   calls, entry, wire>>

-----------------------------------------------------------------------------
(* Endpoints *)

TenantIds == {"t1"}

TournamentIds == {"m1"}

Payloads == { [name |-> "n1"] }

\* Tenant.get
TenantGet(t, id) == SendRequest(t, "GET", "/v1/tenants/" \o id, JsonNone)

\* Tenant.create
TenantCreate(t, data) == SendRequest(t, "POST", "/v2/tenants", data)

\* TournamentEndpoint.get
TournamentGet(t, id) == SendRequest(t, "GET", "/v2/tournaments/" \o id, JsonNone)

\* TournamentEndpoint.create
TournamentCreate(t, data) == SendRequest(t, "POST", "/v2/tournaments", data)

-----------------------------------------------------------------------------

Next ==
    \/ Authenticate
    \/ \E r \in TokenResponses : AuthenticateReply(r)
    \/ \E t \in threads, id \in TenantIds : TenantGet(t, id)
    \/ \E t \in threads, d \in Payloads : TenantCreate(t, d)
    \/ \E t \in threads, id \in TournamentIds : TournamentGet(t, id)
    \/ \E t \in threads, d \in Payloads : TournamentCreate(t, d)
    \/ \E t \in threads, r \in ResourceResponses : Attempt1Reply(t, r)
    \/ \E t \in threads, r \in TokenResponses : RefreshReply(t, r)
    \/ \E t \in threads, r \in ResourceResponses : RetryReply(t, r)

Spec == Init /\ [][Next]_vars

\* every HTTP call that a blocked caller waits for comes back: session.request
\* returns a response or raises
HttpCallsComeBack ==
    /\ WF_vars(\E r \in TokenResponses : AuthenticateReply(r))
    /\ \A t \in Threads :
          /\ WF_vars(\E r \in ResourceResponses : Attempt1Reply(t, r))
          /\ WF_vars(\E r \in TokenResponses : RefreshReply(t, r))
          /\ WF_vars(\E r \in ResourceResponses : RetryReply(t, r))

\* the client used through one endpoint without payload and one with payload
LiveNext ==
    \/ Authenticate
    \/ \E r \in TokenResponses : AuthenticateReply(r)
    \/ \E t \in threads, id \in TenantIds : TenantGet(t, id)
    \/ \E t \in threads, d \in Payloads : TournamentCreate(t, d)
    \/ \E t \in threads, r \in ResourceResponses : Attempt1Reply(t, r)
    \/ \E t \in threads, r \in TokenResponses : RefreshReply(t, r)
    \/ \E t \in threads, r \in ResourceResponses : RetryReply(t, r)

FairSpec == Init /\ [][LiveNext]_vars /\ HttpCallsComeBack

-----------------------------------------------------------------------------
(* Two callers on one client.  The client holds no lock, so the callers     *)
(* interleave wherever one of them blocks on an HTTP call, and between the  *)
(* two assignments self.access_token = ..., self.refresh_token = ... of     *)
(* _refresh_access_token.                                                   *)

ConcThreads == {1, 2}

\* the server's answers in the two-caller runs
ConcLoginReplies ==
    { HttpResponse(200, DictBody([access_token |-> "a1", refresh_token |-> "r1"])) }

ConcRefreshReplies ==
    { HttpResponse(200, DictBody([access_token |-> "a2", refresh_token |-> "r2"])),
      HttpResponse(200, DictBody([access_token |-> "a3", refresh_token |-> "r3"])),
      HttpResponse(500, InvalidBody) }

ConcResourceReplies ==
    { HttpResponse(401, InvalidBody), HttpResponse(200, DictBody([id |-> "b1"])) }

ConcInit ==
    /\ cls \in Classes
    /\ client = "new"
    /\ ctor_exc = None
    /\ login_reply = <<>>
    /\ access_token = None
    /\ refresh_token = None
    /\ threads = ConcThreads
    /\ pc = [t \in ConcThreads |-> "idle"]
    /\ req = [t \in ConcThreads |-> NoRequest]
    /\ calls = [t \in ConcThreads |-> <<>>]
    /\ replies = [t \in ConcThreads |-> <<>>]
    /\ entry = [t \in ConcThreads |-> NoEntry]
    /\ outcome = [t \in ConcThreads |-> NoOutcome]
    /\ wire = [first |-> None, logins |-> 0]
    /\ sends = [failed |-> FALSE]

\* the first attempt under a lock around refresh: a caller whose attempt got
\* 401 waits while another caller is refreshing
Attempt1Reply_Locked(t, r) ==
    /\ pc[t] = "attempt1"
    /\ Is401(r) => \A u \in threads \ {t} : pc[u] \notin {"refreshing", "storing"}
    /\ replies' = [replies EXCEPT ![t] = Append(@, r)]
    /\ IF Is401(r)
         THEN /\ Issue(t, RefreshCall(refresh_token), "refreshing")
              /\ UNCHANGED <<outcome, sends>>
         ELSE IF SendHttpRequest(r) # None
         THEN /\ Finish(t, Raise(SendHttpRequest(r)))
              /\ UNCHANGED <<calls, wire>>
         ELSE IF JsonExc(r.body) # None
         THEN /\ Finish(t, Raise(JsonExc(r.body)))
              /\ UNCHANGED <<calls, wire>>
         ELSE /\ Finish(t, Return(r.body))
              /\ UNCHANGED <<calls, wire>>
    /\ UNCHANGED <<cls, client, ctor_exc, login_reply, access_token, refresh_token, threads,
                   req, entry>>

\* the first attempt of a caller, as in send_request
ConcAttempt1Reply(t, r) == Attempt1Reply(t, r)

\* _refresh_access_token from the response of the refresh call up to and
\* including self.access_token = data.get("access_token")
ConcRefreshReply(t, r) ==
    /\ pc[t] = "refreshing"
    /\ replies' = [replies EXCEPT ![t] = Append(@, r)]
    /\ IF SendHttpRequest(r) # None
         THEN /\ Finish(t, Raise(SendHttpRequest(r)))
              /\ UNCHANGED access_token
         ELSE IF TokenDataExc(r.body) # None
         THEN /\ Finish(t, Raise(TokenDataExc(r.body)))
              /\ UNCHANGED access_token
         ELSE /\ access_token' = DictGet(r.body.value, "access_token")
              /\ pc' = [pc EXCEPT ![t] = "storing"]
              /\ UNCHANGED <<outcome, sends>>
    /\ UNCHANGED <<cls, client, ctor_exc, login_reply, refresh_token, threads, req, calls,
                   entry, wire>>

\* self.refresh_token = data.get("refresh_token"), then the headers rebuilt
\* from self.access_token as it is now, and the retried call
ConcStoreRefreshToken(t) ==
    /\ pc[t] = "storing"
    /\ refresh_token' = DictGet(replies[t][2].body.value, "refresh_token")
    /\ IF GetHeaders(cls, access_token).raised
         THEN /\ Finish(t, Raise("Exception"))
              /\ UNCHANGED <<calls, wire>>
         ELSE /\ Issue(t, ApiCall(req[t], GetHeaders(cls, access_token).headers), "retry")
              /\ UNCHANGED <<outcome, sends>>
    /\ UNCHANGED <<cls, client, ctor_exc, login_reply, access_token, threads, req, replies,
                   entry>>

ConcNext ==
    \/ Authenticate
    \/ \E r \in ConcLoginReplies : AuthenticateReply(r)
    \/ \E t \in threads, id \in TenantIds : TenantGet(t, id)
    \/ \E t \in threads, r \in ConcResourceReplies : ConcAttempt1Reply(t, r)
    \/ \E t \in threads, r \in ConcRefreshReplies : ConcRefreshReply(t, r)
    \/ \E t \in threads : ConcStoreRefreshToken(t)
    \/ \E t \in threads, r \in ConcResourceReplies : RetryReply(t, r)

ConcSpec == ConcInit /\ [][ConcNext]_vars

-----------------------------------------------------------------------------
(* Vocabulary of the properties *)

\* the last send_request of caller t has returned or raised
Done(t) == pc[t] = "idle" /\ outcome[t].kind \in {"return", "raise"}

Refreshes(t) == { i \in DOMAIN calls[t] : calls[t][i].url = REFRESH_URL }

Attempts(t) == { i \in DOMAIN calls[t] : calls[t][i].url = BASE_URL \o req[t].endpoint }

\* reply number i of the send_request of caller t exists and satisfies P
Got(t, i, P(_)) == i <= Len(replies[t]) /\ P(replies[t][i])

\* the last send_request of caller t returned b / raised e
Returned(t, b) == outcome[t].kind = "return" /\ outcome[t].value = b

Raised(t, e) == outcome[t].kind = "raise" /\ outcome[t].exc = e

Status200(r) == r.net = "ok" /\ r.status = 200

Status401(r) == r.net = "ok" /\ r.status = 401

\* an HTTP error status other than 401, or a failure of the transport
FailsNot401(r) == r.net = "fail" \/ (r.status \in ErrorStatuses /\ r.status # 401)

Parses(r) == r.body.parse # "invalid"

\* a refresh response after which _refresh_access_token returns normally
RefreshSucceeds(r) == r.net = "ok" /\ r.status \in OkStatuses /\ r.body.parse = "dict"

TokensAsOnEntry(t) ==
    /\ access_token = entry[t].access_token
    /\ refresh_token = entry[t].refresh_token

\* the calls of a full refresh-and-retry, in their order
OriginalRefreshRetry(t) ==
    /\ Len(calls[t]) = 3
    /\ calls[t][1].url = BASE_URL \o req[t].endpoint
    /\ calls[t][1].method = req[t].method
    /\ calls[t][2].url = REFRESH_URL
    /\ calls[t][3].url = calls[t][1].url
    /\ calls[t][3].method = calls[t][1].method
    /\ calls[t][3].json = calls[t][1].json

-----------------------------------------------------------------------------
(* Properties *)

\* C1: every send_request issues at most one refresh call and at most two
\* attempts of the logical request; when the first attempt gets 401, the
\* refresh succeeds and the retry gets 401 too, it raises after exactly the
\* three calls original, refresh, retry.
C1_AtMostOneRefresh ==
    \A t \in threads :
        /\ Cardinality(Refreshes(t)) <= 1
        /\ Cardinality(Attempts(t)) <= 2
        /\ Len(calls[t]) <= 3
        /\ (Got(t, 1, Status401) /\ Got(t, 2, RefreshSucceeds) /\ Got(t, 3, Status401))
             => /\ Done(t)
                /\ Raised(t, "HTTPError")
                /\ Len(replies[t]) = 3
                /\ OriginalRefreshRetry(t)

C1_Witness ==
    \E t \in threads :
        /\ Done(t)
        /\ Got(t, 1, Status401) /\ Got(t, 2, RefreshSucceeds) /\ Got(t, 3, Status401)
        /\ outcome[t].kind = "raise"

\* C2: when the first attempt gets 401, the refresh succeeds and the second
\* attempt gets 200, send_request has issued exactly three calls in the order
\* original, refresh, retry and returns the parsed body of the retry (the
\* body of a 200 that is JSON), not that of the first attempt or the refresh.
C2_RetryBodyReturned ==
    \A t \in threads :
        (Got(t, 1, Status401) /\ Got(t, 2, RefreshSucceeds) /\ Got(t, 3, Status200))
        => /\ Done(t)
           /\ Len(replies[t]) = 3
           /\ OriginalRefreshRetry(t)
           /\ Parses(replies[t][3]) => Returned(t, replies[t][3].body)

C2_Witness ==
    \E t \in threads :
        /\ Done(t)
        /\ Got(t, 1, Status401) /\ Got(t, 2, RefreshSucceeds)
        /\ Got(t, 3, Status200) /\ Got(t, 3, Parses)
        /\ outcome[t].kind = "return"
        /\ replies[t][3].body # replies[t][2].body

\* C3: when the first attempt fails with an HTTP error status other than 401
\* or with a transport error, send_request raises that error at once: one HTTP
\* call, no refresh, no retry, both tokens as they were.
C3_Non401Propagates ==
    \A t \in threads :
        Got(t, 1, FailsNot401)
        => /\ Done(t)
           /\ Raised(t, IF replies[t][1].net = "fail" THEN "ConnectionError" ELSE "HTTPError")
           /\ Len(calls[t]) = 1
           /\ Len(replies[t]) = 1
           /\ Refreshes(t) = {}
           /\ TokensAsOnEntry(t)

C3_Witness ==
    \E t \in threads :
        /\ Done(t)
        /\ Got(t, 1, FailsNot401)
        /\ replies[t][1].net = "ok" /\ replies[t][1].status = 500
        /\ entry[t].access_token # None

\* C4: when the first attempt gets 200, send_request issues exactly one HTTP
\* call and no refresh, leaves both tokens as they were, and returns the
\* parsed body of that response unchanged.
C4_FirstAttempt200 ==
    \A t \in threads :
        Got(t, 1, Status200)
        => /\ Done(t)
           /\ Len(calls[t]) = 1
           /\ Len(replies[t]) = 1
           /\ Refreshes(t) = {}
           /\ TokensAsOnEntry(t)
           /\ Parses(replies[t][1]) => Returned(t, replies[t][1].body)

C4_Witness ==
    \E t \in threads :
        /\ Done(t)
        /\ Got(t, 1, Status200) /\ Got(t, 1, Parses)
        /\ outcome[t].kind = "return"
        /\ entry[t].access_token # None

\* C5: a refresh invoked while no refresh_token is held raises
\* InvalidStateError (and so sends no refresh call), also when it is the
\* refresh that a 401 triggers on a client whose login response carried no
\* refresh_token.
C5_RefreshWithoutTokenFails ==
    \A t \in threads :
        (Got(t, 1, Status401) /\ entry[t].refresh_token = None)
        => /\ Raised(t, "InvalidStateError")
           /\ Refreshes(t) = {}

\* C6: once a login has completed without error (and after every refresh
\* that completed without error) both access_token and refresh_token are set.
C6_TokensSetTogether ==
    client = "ready" => (access_token # None /\ refresh_token # None)

\* C7: a send_request entered after an earlier one failed starts afresh from
\* the stored token pair: it issues its first attempt with the headers of the
\* stored access_token, refreshes at most once and attempts at most twice.
C7_NextSendStartsFresh ==
    \A t \in threads :
        (entry[t].after_failure /\ (Done(t) \/ pc[t] # "idle"))
        => /\ Len(calls[t]) >= 1
           /\ calls[t][1].url = BASE_URL \o req[t].endpoint
           /\ Cardinality(Refreshes(t)) <= 1
           /\ Cardinality(Attempts(t)) <= 2

\* C8: the header builder of either class returns the Authorization and the
\* content-type header when access_token is set and the content-type header
\* alone, without raising, when it is absent; so a send_request entered with
\* no access_token still issues its HTTP call.
C8_HeadersNeverRaise ==
    /\ client = "ready" =>
          /\ ~GetHeaders(cls, access_token).raised
          /\ GetHeaders(cls, access_token).headers =
                IF access_token # None
                THEN [k \in {"Authorization", "Content-Type"} |->
                         IF k = "Authorization" THEN "Bearer " \o access_token
                         ELSE "application/json"]
                ELSE [k \in {"Content-Type"} |-> "application/json"]
    /\ \A t \in threads :
          (entry[t].access_token = None /\ (Done(t) \/ pc[t] # "idle"))
          => Len(calls[t]) >= 1

\* the error of the taxonomy that the exception of a finished send_request
\* stands for: HTTPError and ConnectionError are HttpError and TransportError,
\* anything the refresh call raises is AuthenticationError, the rest is none
TaxonomyError(t) ==
    IF Len(replies[t]) = 2 /\ Len(calls[t]) = 2
          /\ outcome[t].exc \in {"HTTPError", "ConnectionError", "JSONDecodeError",
                                  "AttributeError"}
    THEN "AuthenticationError"
    ELSE IF outcome[t].exc = "HTTPError" THEN "HttpError"
    ELSE IF outcome[t].exc = "ConnectionError" THEN "TransportError"
    ELSE IF outcome[t].exc = "InvalidStateError" THEN "InvalidStateError"
    ELSE None

\* C9: every send_request ends by returning a parsed JSON body or by raising
\* one of AuthenticationError, InvalidStateError, HttpError, TransportError.
C9_OutcomeInTaxonomy ==
    \A t \in threads :
        Done(t) => \/ outcome[t].kind = "return" /\ outcome[t].value.parse # "invalid"
                   \/ outcome[t].kind = "raise" /\ TaxonomyError(t) # None

\* a login response on which _authenticate raises
LoginFails(r) == r.net = "fail" \/ r.status \in ErrorStatuses \/ r.body.parse # "dict"

\* a 200 login response whose body carries both token fields
LoginGivesBoth(r) ==
    /\ Status200(r)
    /\ r.body.parse = "dict"
    /\ {"access_token", "refresh_token"} \subseteq DOMAIN r.body.value

NoSendEntered == \A t \in threads : req[t] = NoRequest /\ calls[t] = <<>> /\ pc[t] = "idle"

\* C10: the login POST is the first HTTP call of the client and is issued
\* exactly once, by the constructor; after a 200 login response with both
\* token fields the constructed client holds exactly those two values; when
\* the login call fails the constructor fails and no send_request ever runs.
C10_EagerLogin ==
    /\ wire.first = (IF client = "new" THEN None ELSE LOGIN_URL)
    /\ wire.logins = (IF client = "new" THEN 0 ELSE 1)
    /\ client \in {"new", "login"} => (NoSendEntered /\ login_reply = <<>>)
    /\ client \in {"ready", "failed"} => Len(login_reply) = 1
    /\ login_reply # <<>> =>
          /\ LoginFails(login_reply[1]) =>
                (client = "failed" /\ ctor_exc # None /\ NoSendEntered)
          /\ (LoginGivesBoth(login_reply[1]) /\ NoSendEntered) =>
                /\ client = "ready"
                /\ access_token = login_reply[1].body.value.access_token
                /\ refresh_token = login_reply[1].body.value.refresh_token
                /\ access_token # None /\ refresh_token # None

C10_Witness ==
    /\ client = "ready"
    /\ login_reply # <<>>
    /\ LoginGivesBoth(login_reply[1])
    /\ NoSendEntered
    /\ access_token = "a2" /\ refresh_token = "r1"

\* C11: provided every HTTP call comes back, every send_request that has been
\* entered returns or raises; on its way it waits for the original call and,
\* after a 401 only, for one refresh call and one retried call.
C11_SendTerminates ==
    \A t \in Threads :
        /\ (pc[t] # "idle") ~> Done(t)
        /\ [](pc[t] = "refreshing" => (Len(calls[t]) = 2 /\ Got(t, 1, Status401)))
        /\ [](pc[t] = "retry" => (Len(calls[t]) = 3 /\ Got(t, 1, Status401)))
        /\ [](pc[t] = "attempt1" => Len(calls[t]) = 1)

C11_Witness ==
    \E t \in threads :
        /\ Done(t)
        /\ Len(calls[t]) = 3
        /\ Len(replies[t]) = 3

\* the refresh response of the send_request of caller t carries an access_token
RefreshGaveToken(t) ==
    /\ Got(t, 2, RefreshSucceeds)
    /\ "access_token" \in DOMAIN replies[t][2].body.value

\* C12: in a send_request that gets 401 and refreshes successfully, the
\* refresh call carries the refresh_token stored when the 401 came in, and
\* the retried request has the method, path and payload of the first attempt
\* and the Authorization header of the access_token that this refresh
\* returned, not of the one sent on the 401 attempt.
C12_RetryUsesRefreshedToken ==
    \A t \in threads :
        /\ Len(calls[t]) >= 2 =>
              /\ Got(t, 1, Status401)
              /\ calls[t][2].method = "POST"
              /\ calls[t][2].url = REFRESH_URL
              /\ calls[t][2].json = [refresh_token |-> entry[t].refresh_token]
        /\ Len(calls[t]) >= 3 =>
              /\ Got(t, 2, RefreshSucceeds)
              /\ calls[t][3].method = calls[t][1].method
              /\ calls[t][3].url = calls[t][1].url
              /\ calls[t][3].json = calls[t][1].json
              /\ "Authorization" \in DOMAIN calls[t][3].headers =>
                    /\ RefreshGaveToken(t)
                    /\ calls[t][3].headers["Authorization"] =
                          "Bearer " \o replies[t][2].body.value.access_token
              /\ RefreshGaveToken(t) => "Authorization" \in DOMAIN calls[t][3].headers
        /\ (Got(t, 1, Status401) /\ RefreshGaveToken(t)) => Len(calls[t]) = 3

C12_Witness ==
    \E t \in threads :
        /\ Len(calls[t]) = 3
        /\ RefreshGaveToken(t)
        /\ entry[t].access_token = "a1"
        /\ entry[t].refresh_token = "r1"
        /\ calls[t][1].headers["Authorization"] = "Bearer a1"
        /\ calls[t][3].headers["Authorization"] = "Bearer a2"
        /\ calls[t][1].method = "POST"

\* a refresh response with a status outside 200..299
RefreshNon2xx(r) == r.net = "ok" /\ (r.status < 200 \/ r.status > 299)

\* a refresh response with a 4xx or 5xx status
RefreshErrorStatus(r) == r.net = "ok" /\ r.status >= 400 /\ r.status <= 599

RefreshTransportError(r) == r.net = "fail"

\* a 2xx refresh response whose body is no JSON
RefreshUnparseable(r) ==
    r.net = "ok" /\ r.status >= 200 /\ r.status <= 299 /\ r.body.parse = "invalid"

\* the failed refresh changed nothing: the error leaves send_request after
\* two HTTP calls, and both tokens are those of the entry
NothingChanged(t) ==
    /\ Done(t)
    /\ outcome[t].kind = "raise"
    /\ Len(calls[t]) = 2
    /\ Len(replies[t]) = 2
    /\ access_token = entry[t].access_token
    /\ refresh_token = entry[t].refresh_token

\* both tokens are the two fields of one response: of the refresh response of
\* the running send_request if it was stored, else what they were before
ReplacedTogether(t) ==
    IF Got(t, 2, RefreshSucceeds)
    THEN /\ access_token = DictGet(replies[t][2].body.value, "access_token")
         /\ refresh_token = DictGet(replies[t][2].body.value, "refresh_token")
    ELSE IF req[t] # NoRequest
    THEN /\ access_token = entry[t].access_token
         /\ refresh_token = entry[t].refresh_token
    ELSE IF client = "ready"
    THEN /\ access_token = DictGet(login_reply[1].body.value, "access_token")
         /\ refresh_token = DictGet(login_reply[1].body.value, "refresh_token")
    ELSE access_token = None /\ refresh_token = None

AsPlaytomicClient(at) == PlaytomicClient_get_headers(at)

\* what it sends first if it is an instance of Client
AsClient(at) == Client_get_headers(at)

\* C14: PlaytomicClient and Client are equivalent: from the same stored
\* tokens and against the same server responses the header builders agree,
\* and every send_request of either class issues the calls that the other
\* would issue: a first attempt and, after a refresh that was stored, a retry,
\* each with the headers the other class builds.
C14_ClassesEquivalent ==
    /\ client = "ready" => AsClient(access_token) = AsPlaytomicClient(access_token)
    /\ \A t \in threads :
          /\ (Done(t) \/ pc[t] # "idle") =>
                /\ Len(calls[t]) >= 1
                /\ calls[t][1].headers = AsPlaytomicClient(entry[t].access_token).headers
                /\ calls[t][1].headers = AsClient(entry[t].access_token).headers
          /\ (Got(t, 1, Status401) /\ Got(t, 2, RefreshSucceeds)) =>
                /\ Len(calls[t]) = 3
                /\ calls[t][3].headers =
                      AsPlaytomicClient(DictGet(replies[t][2].body.value, "access_token")).headers
                /\ calls[t][3].headers =
                      AsClient(DictGet(replies[t][2].body.value, "access_token")).headers

Resp401 == HttpResponse(401, InvalidBody)

\* the refresh response that caller t has stored, or is storing
StoredBy(t) == replies[t][2].body.value

\* C15: the client provides no mutual exclusion over the token pair: a caller
\* whose first attempt gets 401 goes on to its refresh call whatever the
\* other caller is doing, and a caller whose refresh has come back stores its
\* access_token whatever the other caller is doing, also between the other's
\* two token assignments.
C15_NoMutualExclusion ==
    \A t \in threads :
        /\ pc[t] = "attempt1" => ENABLED ConcAttempt1Reply(t, Resp401)
        /\ pc[t] = "refreshing" => \A r \in ConcRefreshReplies : ENABLED ConcRefreshReply(t, r)
        /\ pc[t] = "storing" => ENABLED ConcStoreRefreshToken(t)

\* both callers sent a refresh call with the same refresh_token, and the
\* stored access_token and refresh_token come from two different refresh
\* responses
C15_Witness ==
    \E t \in threads : \E u \in threads \ {t} :
        /\ Len(calls[t]) >= 2 /\ Len(calls[u]) >= 2
        /\ Got(t, 1, Status401) /\ Got(u, 1, Status401)
        /\ calls[t][2].url = REFRESH_URL /\ calls[u][2].url = REFRESH_URL
        /\ calls[t][2].json = calls[u][2].json
        /\ Got(t, 2, RefreshSucceeds) /\ Got(u, 2, RefreshSucceeds)
        /\ StoredBy(t) # StoredBy(u)
        /\ access_token = StoredBy(t).access_token
        /\ refresh_token = StoredBy(u).refresh_token
        /\ access_token # StoredBy(u).access_token
        /\ refresh_token # StoredBy(t).refresh_token
        /\ pc[t] # "storing" /\ pc[u] # "storing"

=============================================================================
